---- MODULE Spec2Model ----
(***************************************************************************)
(* A model of the TripoSR desktop front-end (simple_gui.py) and of its     *)
(* dependency installer (tr_setup_deps.py).                                *)
(*                                                                         *)
(* Texts (paths typed into an Entry, lines of requirements.txt) are        *)
(* sequences of one-character strings so that strip() and replace() are    *)
(* computed, not assumed.  Amounts of GPU memory are counted in MiB (the   *)
(* source counts bytes; 4 * 1024 ** 3 bytes = 4096 MiB).                   *)
(***************************************************************************)
EXTENDS Integers, Sequences, FiniteSets, TLC

(***************************************************************************)
(* Program constants: simple_gui.py lines 20-28.                           *)
(***************************************************************************)
MC_RES == <<6, 9>>
CH_SIZE == <<4, 13>>
TX_RES == <<8, 12>>

Pow2(e) == 2 ^ e

DEFAULT_MC_RES == Pow2(MC_RES[2])
DEFAULT_CHUNK_SIZE == Pow2(CH_SIZE[1])
DEFAULT_TEXTURE_RES == Pow2(10)

GiB4 == 4096
GiB8 == 8192

(***************************************************************************)
(* Bounds of the model.                                                    *)
(***************************************************************************)
\* runs that may be in flight at once (timers, worker threads, posted on_done)
MaxActive == 2

\* what the detection of GPU memory may return, in MiB
VramSamples == {0, GiB4, GiB8, 2 * GiB8}
\* the slider positions the user drags to, besides both ends of each slider
McStops == {7}
ChunkStops == {8}
TexStops == {10}
\* what the user types or picks as input path and output directory
InputTexts == {<<>>, <<" ">>, <<" ", "i">>}
OutputTexts == {<<>>, <<"o">>}
\* exit codes of the external process
ExitCodes == {0, 2}

\* the lines the worker reads from one external process, at most
MaxLines == 2

(***************************************************************************)
(* Arithmetic helpers.                                                     *)
(***************************************************************************)
Min(a, b) == IF a < b THEN a ELSE b
Max(a, b) == IF a > b THEN a ELSE b
Clamp(lo, hi, x) == Max(lo, Min(hi, x))

\* int(math.log2(n)) for n >= 1
RECURSIVE FloorLog2(_)
FloorLog2(n) == IF n <= 1 THEN 0 ELSE 1 + FloorLog2(n \div 2)

\* int(round(math.log2(n))) for n >= 1: the e with 2^(e-1/2) <= n < 2^(e+1/2),
\* that is 2^(2e) <= 2*n*n < 2^(2e+2).  n*n is kept below 2^30 by halving n and
\* counting the halvings while n is large (log2(n/2) = log2(n) - 1; for every
\* n >= 16384 the result is at least 14, above every slider range).
RECURSIVE RoundLog2(_)
RoundLog2(n) ==
  IF n >= 16384 THEN 1 + RoundLog2(n \div 2)
  ELSE LET f == FloorLog2(n)
       IN  IF 2 * n * n >= Pow2(2 * f + 2) THEN f + 1 ELSE f

(***************************************************************************)
(* Texts.                                                                  *)
(***************************************************************************)
RECURSIVE LStrip(_)
LStrip(s) == IF s # <<>> /\ Head(s) = " " THEN LStrip(Tail(s)) ELSE s

RECURSIVE RStrip(_)
RStrip(s) ==
  IF s # <<>> /\ s[Len(s)] = " " THEN RStrip(SubSeq(s, 1, Len(s) - 1)) ELSE s

\* str.strip()
Strip(s) == RStrip(LStrip(s))

RECURSIVE Digits(_)
Digits(n) ==
  IF n < 10 THEN <<ToString(n)>> ELSE Digits(n \div 10) \o <<ToString(n % 10)>>

(***************************************************************************)
(* The preference file mem.sav.  A JSON value is a record of its kind, its *)
(* number (int and bool kinds) and its text (str kind); a JSON object is   *)
(* the set of keys it has and a value for each key.                        *)
(***************************************************************************)
PrefKeys ==
  {"input_path", "output_dir", "mc_resolution", "bake_texture", "chunk_size",
   "texture_resolution", "preview_delete", "render", "safe_mode"}

IntV(n) == [kind |-> "int", num |-> n, str |-> <<>>]
BoolV(b) == [kind |-> "bool", num |-> IF b THEN 1 ELSE 0, str |-> <<>>]
StrV(s) == [kind |-> "str", num |-> 0, str |-> s]
NullV == [kind |-> "null", num |-> 0, str |-> <<>>]

\* int(v): a number or a bool converts, None and a non-numeric text raise
PyInt(v) ==
  IF v.kind \in {"int", "bool"} THEN [ok |-> TRUE, val |-> v.num]
  ELSE [ok |-> FALSE, val |-> 0]

\* bool(v)
PyBool(v) ==
  CASE v.kind = "int" -> v.num # 0
    [] v.kind = "bool" -> v.num = 1
    [] v.kind = "str" -> v.str # <<>>
    [] OTHER -> FALSE

\* str(v)
PyStr(v) ==
  CASE v.kind = "str" -> v.str
    [] v.kind = "int" ->
         IF v.num < 0 THEN <<"-">> \o Digits(0 - v.num) ELSE Digits(v.num)
    [] v.kind = "bool" ->
         IF v.num = 1 THEN <<"T", "r", "u", "e">> ELSE <<"F", "a", "l", "s", "e">>
    [] OTHER -> <<"N", "o", "n", "e">>

NullData == [k \in PrefKeys |-> NullV]
EmptyPrefs == [has |-> {}, data |-> NullData]

NoFile == [state |-> "absent", has |-> {}, data |-> NullData]
GarbageFile == [state |-> "garbage", has |-> {}, data |-> NullData]
DictFile(has, data) ==
  [state |-> "dict", has |-> has,
   data |-> [k \in PrefKeys |-> IF k \in has THEN data[k] ELSE NullV]]

\* _load_prefs
LoadPrefs(file) ==
  IF file.state = "dict" THEN [has |-> file.has, data |-> file.data]
  ELSE EmptyPrefs

\* a _save_prefs that records the render checkbox where the preview-delete
\* setting belongs, and the other way round
PrefsDataSwapped(input_path, output_dir, mc_resolution, bake_texture, chunk_size, texture_resolution, preview_delete, render_flag, safe_mode) ==
  [k \in PrefKeys |->
     CASE k = "input_path" -> StrV(input_path)
       [] k = "output_dir" -> StrV(output_dir)
       [] k = "mc_resolution" -> IntV(mc_resolution)
       [] k = "bake_texture" -> BoolV(bake_texture)
       [] k = "chunk_size" -> IntV(chunk_size)
       [] k = "texture_resolution" -> IntV(texture_resolution)
       [] k = "preview_delete" -> BoolV(render_flag)
       [] k = "render" -> BoolV(preview_delete)
       [] k = "safe_mode" -> BoolV(safe_mode)]

\* the JSON object _save_prefs builds
PrefsData(input_path, output_dir, mc_resolution, bake_texture, chunk_size, texture_resolution, preview_delete, render_flag, safe_mode) ==
  [k \in PrefKeys |->
     CASE k = "input_path" -> StrV(input_path)
       [] k = "output_dir" -> StrV(output_dir)
       [] k = "mc_resolution" -> IntV(mc_resolution)
       [] k = "bake_texture" -> BoolV(bake_texture)
       [] k = "chunk_size" -> IntV(chunk_size)
       [] k = "texture_resolution" -> IntV(texture_resolution)
       [] k = "preview_delete" -> BoolV(preview_delete)
       [] k = "render" -> BoolV(render_flag)
       [] k = "safe_mode" -> BoolV(safe_mode)]

\* _save_prefs: write_text may fail, before the file is opened (the file is
\* left as it was) or after it was truncated; the exception is swallowed
SavePrefs(file, data, outcome) ==
  CASE outcome = "ok" -> DictFile(PrefKeys, data)
    [] outcome = "truncated" -> GarbageFile
    [] OTHER -> file

SaveOutcomes == {"ok", "truncated", "unwritable"}

\* contents of mem.sav the model starts from: a file of ill-formed values, a
\* file of values out of range, and a file of paths alone
OddPrefs ==
  DictFile({"mc_resolution", "chunk_size", "texture_resolution", "bake_texture"},
           [NullData EXCEPT !["mc_resolution"] = IntV(96),
                            !["chunk_size"] = IntV(0),
                            !["texture_resolution"] = StrV(<<"x">>),
                            !["bake_texture"] = NullV])
BigPrefs ==
  DictFile({"input_path", "output_dir", "mc_resolution", "chunk_size",
            "texture_resolution", "render"},
           [NullData EXCEPT !["input_path"] = StrV(<<"i">>),
                            !["output_dir"] = StrV(<<"o">>),
                            !["mc_resolution"] = IntV(100000),
                            !["chunk_size"] = IntV(8192),
                            !["texture_resolution"] = IntV(0 - 5),
                            !["render"] = StrV(<<"n", "o">>)])
PathPrefs ==
  DictFile({"input_path", "output_dir"},
           [NullData EXCEPT !["input_path"] = StrV(<<"i">>),
                            !["output_dir"] = StrV(<<"o">>)])

PrefSamples == {NoFile, GarbageFile, OddPrefs, BigPrefs, PathPrefs}

(***************************************************************************)
(* The state.                                                              *)
(***************************************************************************)
VARIABLES
  app,         \* "closed", or "open" once SimpleGUI() is constructed
  tkv,         \* the Tk variables of SimpleGUI and the "to" option of its scales
  wstate,      \* the state option of every widget that has one
  prefFile,    \* the content of mem.sav
  vram,        \* what _detect_total_vram returns, in MiB
  timers,      \* the pending self.after(100, self._run_triposr_async, ...) calls
  threads,     \* the worker threads inside run_triposr
  afterq,      \* the pending self.after(0, ...) callbacks, in posting order
  previews,    \* the output directories that hold a preview image input.png
  vendor,      \* the files of the vendored tool under vendor/TripoSR
  env,         \* the user and the machine of this behaviour: the widgets the
               \* user operates, whether the user clicks the start button again
               \* while a run is in flight, and the amounts of GPU memory the
               \* detection returns
  inst,        \* the run of tr_setup_deps.py: where main is, and what it did
  marker,      \* whether the file .torchmcubes_built exists
  prompts      \* the message boxes the last call of on_run showed, in order,
               \* each with the answer it got

vars ==
  <<app, tkv, wstate, prefFile, vram, timers, threads, afterq, previews, vendor, env,
    inst, marker, prompts>>

(***************************************************************************)
(* Widgets: the children of the root window, and the children of its two   *)
(* frames.  A Frame has no state option; every other widget here has one.  *)
(***************************************************************************)
RootChildren ==
  {"input_entry", "browse_input_button", "output_entry", "browse_output_button",
   "mc_scale", "chunk_scale", "tex_scale", "options_frame", "actions_frame"}
FrameChildren ==
  {"bake_check", "preview_check", "render_check", "safe_check",
   "status_label", "run_button"}
Frames == {"options_frame", "actions_frame"}
Stateful == (RootChildren \cup FrameChildren) \ Frames

\* child.keys() holds "state"
HasStateOption(w) == w \notin Frames

AllNormal == [w \in Stateful |-> "normal"]

\* disable_ui / enable_ui: self.winfo_children() are the root's own children
SetRootChildren(ws, st) ==
  [w \in Stateful |-> IF w \in RootChildren /\ HasStateOption(w) THEN st ELSE ws[w]]

disable_ui(ws) == SetRootChildren(ws, "disabled")
enable_ui(ws) == SetRootChildren(ws, "normal")

(***************************************************************************)
(* The slider callbacks.  `value' is the slider position; Tk hands it over *)
(* as the text of a number, which int(float(value)) reads back.            *)
(***************************************************************************)
Display(actual, exp) == [actual |-> actual, exp |-> exp]

_on_mc_exp_changed(g, value) ==
  LET exp == Clamp(MC_RES[1], MC_RES[2], value)
      actual == Pow2(exp)
  IN  [g EXCEPT !.mc_res_var = actual, !.mc_display_var = Display(actual, exp)]

_on_chunk_exp_changed(g, value) ==
  LET exp == Clamp(CH_SIZE[1], CH_SIZE[2], value)
      actual == Pow2(exp)
  IN  [g EXCEPT !.chunk_size_var = actual, !.chunk_display_var = Display(actual, exp)]

_on_tex_exp_changed(g, value) ==
  LET exp == Clamp(TX_RES[1], TX_RES[2], value)
      actual == Pow2(exp)
  IN  [g EXCEPT !.texture_res_var = actual, !.tex_display_var = Display(actual, exp)]

\* scales that get the upper ends of the largest tier on every machine
VramScaleMaxOneTier(total_vram) == [mc |-> 9, chunk |-> 12, tex |-> 12]

\* a construction that leaves the scales as they were created
NoAutoAdjust(g, total_vram) == g

\* the upper ends of the three scales for an amount of GPU memory
VramScaleMax(total_vram) ==
  IF total_vram <= 0 THEN [mc |-> 8, chunk |-> 11, tex |-> 10]
  ELSE IF total_vram <= GiB4 THEN [mc |-> 8, chunk |-> 11, tex |-> 11]
  ELSE [mc |-> 9, chunk |-> 12, tex |-> 12]

_auto_adjust_scales_by_vram(g, total_vram) ==
  LET tier == VramScaleMax(total_vram)
      new_mc_max == Min(g.mc_scale_to, tier.mc)
      new_chunk_max == Min(g.chunk_scale_to, tier.chunk)
      new_tex_max == Min(g.tex_scale_to, tier.tex)
      g0 == [g EXCEPT !.mc_scale_to = new_mc_max,
                      !.chunk_scale_to = new_chunk_max,
                      !.tex_scale_to = new_tex_max]
      g1 == IF g0.mc_exp_var > new_mc_max
            THEN _on_mc_exp_changed([g0 EXCEPT !.mc_exp_var = new_mc_max], new_mc_max)
            ELSE g0
      g2 == IF g1.chunk_exp_var > new_chunk_max
            THEN _on_chunk_exp_changed([g1 EXCEPT !.chunk_exp_var = new_chunk_max],
                                       new_chunk_max)
            ELSE g1
  IN  IF g2.tex_exp_var > new_tex_max
      THEN _on_tex_exp_changed([g2 EXCEPT !.tex_exp_var = new_tex_max], new_tex_max)
      ELSE g2

(***************************************************************************)
(* SimpleGUI.__init__.                                                     *)
(***************************************************************************)
\* the variables as lines 199-217 create them; the scales are created with
\* to = the maximum of their range (lines 296-346)
FreshVars ==
  [input_var |-> <<>>, output_var |-> <<>>,
   bake_texture_var |-> TRUE, status_var |-> [text |-> "idle", code |-> 0, line |-> <<>>],
   preview_delete_var |-> FALSE, render_var |-> FALSE, safe_mode_var |-> FALSE,
   mc_exp_var |-> FloorLog2(DEFAULT_MC_RES), mc_res_var |-> DEFAULT_MC_RES,
   chunk_exp_var |-> FloorLog2(DEFAULT_CHUNK_SIZE), chunk_size_var |-> DEFAULT_CHUNK_SIZE,
   tex_exp_var |-> FloorLog2(DEFAULT_TEXTURE_RES), texture_res_var |-> DEFAULT_TEXTURE_RES,
   mc_display_var |-> Display(0, 0), chunk_display_var |-> Display(0, 0),
   tex_display_var |-> Display(0, 0),
   mc_scale_to |-> MC_RES[2], chunk_scale_to |-> CH_SIZE[2], tex_scale_to |-> TX_RES[2]]

\* one of the three "if <key> in prefs: try: ... except" blocks of lines 227-266:
\* the value variable and the exponent variable it leaves
LoadedScale(prefs, key, range, default, old) ==
  IF key \notin prefs.has THEN old
  ELSE LET loaded == PyInt(prefs.data[key])
       IN  IF ~loaded.ok
           THEN [res |-> default, exp |-> FloorLog2(default)]
           ELSE IF loaded.val > 0
           THEN [res |-> loaded.val,
                 exp |-> Clamp(range[1], range[2], RoundLog2(loaded.val))]
           ELSE [res |-> loaded.val, exp |-> FloorLog2(default)]

LoadedFlag(prefs, key, old) ==
  IF key \in prefs.has THEN PyBool(prefs.data[key]) ELSE old

LoadedText(prefs, key, old) ==
  IF key \in prefs.has THEN PyStr(prefs.data[key]) ELSE old

\* lines 219-281
ApplyPrefs(g, prefs) ==
  LET mc == LoadedScale(prefs, "mc_resolution", MC_RES, DEFAULT_MC_RES,
                        [res |-> g.mc_res_var, exp |-> g.mc_exp_var])
      chunk == LoadedScale(prefs, "chunk_size", CH_SIZE, DEFAULT_CHUNK_SIZE,
                           [res |-> g.chunk_size_var, exp |-> g.chunk_exp_var])
      tex == LoadedScale(prefs, "texture_resolution", TX_RES, DEFAULT_TEXTURE_RES,
                         [res |-> g.texture_res_var, exp |-> g.tex_exp_var])
  IN  [g EXCEPT
         !.input_var = LoadedText(prefs, "input_path", @),
         !.output_var = LoadedText(prefs, "output_dir", @),
         !.bake_texture_var = LoadedFlag(prefs, "bake_texture", @),
         !.mc_res_var = mc.res, !.mc_exp_var = mc.exp,
         !.chunk_size_var = chunk.res, !.chunk_exp_var = chunk.exp,
         !.texture_res_var = tex.res, !.tex_exp_var = tex.exp,
         !.preview_delete_var = LoadedFlag(prefs, "preview_delete", @),
         !.render_var = LoadedFlag(prefs, "render", @),
         !.safe_mode_var = LoadedFlag(prefs, "safe_mode", @)]

\* lines 394-399
InitScales(g, total_vram) ==
  LET g1 == _on_mc_exp_changed(g, g.mc_exp_var)
      g2 == _on_chunk_exp_changed(g1, g1.chunk_exp_var)
      g3 == _on_tex_exp_changed(g2, g2.tex_exp_var)
  IN  _auto_adjust_scales_by_vram(g3, total_vram)

Constructed(file, total_vram) ==
  InitScales(ApplyPrefs(FreshVars, LoadPrefs(file)), total_vram)

\* app = SimpleGUI()
Construct ==
  /\ app = "closed"
  /\ app' = "open"
  /\ tkv' = Constructed(prefFile, vram)
  /\ wstate' = AllNormal
  /\ UNCHANGED <<prefFile, vram, timers, threads, afterq, previews, vendor, env, inst, marker, prompts>>

(***************************************************************************)
(* The user at the widgets.  A disabled widget ignores the user.           *)
(***************************************************************************)
Enabled(w) == app = "open" /\ wstate[w] = "normal" /\ w \in env.touch

Untouched == <<app, wstate, prefFile, vram, timers, threads, afterq, previews, vendor, env, inst, marker, prompts>>

\* the Entry widgets write their textvariable (lines 285, 290)
TypeInput ==
  /\ Enabled("input_entry")
  /\ \E text \in InputTexts : tkv' = [tkv EXCEPT !.input_var = text]
  /\ UNCHANGED Untouched

TypeOutput ==
  /\ Enabled("output_entry")
  /\ \E text \in OutputTexts : tkv' = [tkv EXCEPT !.output_var = text]
  /\ UNCHANGED Untouched

browse_input ==
  /\ Enabled("browse_input_button")
  /\ \E path \in InputTexts, dir_path \in InputTexts :
       tkv' = IF path = <<>>
              THEN IF dir_path # <<>> THEN [tkv EXCEPT !.input_var = dir_path] ELSE tkv
              ELSE [tkv EXCEPT !.input_var = path]
  /\ UNCHANGED Untouched

browse_output ==
  /\ Enabled("browse_output_button")
  /\ \E path \in OutputTexts :
       tkv' = IF path # <<>> THEN [tkv EXCEPT !.output_var = path] ELSE tkv
  /\ UNCHANGED Untouched

\* where the user drags a slider to: an end of the scale or one of the stops
Positions(range, to, stops) == {e \in {range[1], to} \cup stops : e <= to}

MoveMcScale ==
  /\ Enabled("mc_scale")
  /\ \E e \in Positions(MC_RES, tkv.mc_scale_to, McStops) :
       tkv' = _on_mc_exp_changed([tkv EXCEPT !.mc_exp_var = e], e)
  /\ UNCHANGED Untouched

MoveChunkScale ==
  /\ Enabled("chunk_scale")
  /\ \E e \in Positions(CH_SIZE, tkv.chunk_scale_to, ChunkStops) :
       tkv' = _on_chunk_exp_changed([tkv EXCEPT !.chunk_exp_var = e], e)
  /\ UNCHANGED Untouched

MoveTexScale ==
  /\ Enabled("tex_scale")
  /\ \E e \in Positions(TX_RES, tkv.tex_scale_to, TexStops) :
       tkv' = _on_tex_exp_changed([tkv EXCEPT !.tex_exp_var = e], e)
  /\ UNCHANGED Untouched

\* the four Checkbuttons (lines 355-385)
ToggleBake ==
  /\ Enabled("bake_check")
  /\ tkv' = [tkv EXCEPT !.bake_texture_var = ~@]
  /\ UNCHANGED Untouched

TogglePreviewDelete ==
  /\ Enabled("preview_check")
  /\ tkv' = [tkv EXCEPT !.preview_delete_var = ~@]
  /\ UNCHANGED Untouched

ToggleRender ==
  /\ Enabled("render_check")
  /\ tkv' = [tkv EXCEPT !.render_var = ~@]
  /\ UNCHANGED Untouched

ToggleSafeMode ==
  /\ Enabled("safe_check")
  /\ tkv' = [tkv EXCEPT !.safe_mode_var = ~@]
  /\ UNCHANGED Untouched

(***************************************************************************)
(* SimpleGUI.on_run.                                                       *)
(***************************************************************************)
\* a text of the status label: which text it is, the code it quotes, and
\* the log line it quotes
Status(text) == [text |-> text, code |-> 0, line |-> <<>>]
ErrorStatus(rc) == [text |-> "error", code |-> rc, line |-> <<>>]

\* a safe mode that caps the mc-resolution at 100
SafeModeValuesCap100(safe_mode, mc_res, chunk_size, texture_res, render_flag) ==
  IF safe_mode
  THEN [mc_res |-> Min(mc_res, 100), chunk_size |-> Min(chunk_size, 128),
        texture_res |-> Min(texture_res, 512), render_flag |-> FALSE]
  ELSE [mc_res |-> mc_res, chunk_size |-> chunk_size,
        texture_res |-> texture_res, render_flag |-> render_flag]

\* a safe mode that leaves the render checkbox as it is
SafeModeValuesKeepRender(safe_mode, mc_res, chunk_size, texture_res, render_flag) ==
  IF safe_mode
  THEN [mc_res |-> Min(mc_res, 96), chunk_size |-> Min(chunk_size, 128),
        texture_res |-> Min(texture_res, 512), render_flag |-> render_flag]
  ELSE [mc_res |-> mc_res, chunk_size |-> chunk_size,
        texture_res |-> texture_res, render_flag |-> render_flag]

\* lines 507-518: the values low-memory safe mode lets through
SafeModeValues(safe_mode, mc_res, chunk_size, texture_res, render_flag) ==
  IF safe_mode
  THEN [mc_res |-> Min(mc_res, 96), chunk_size |-> Min(chunk_size, 128),
        texture_res |-> Min(texture_res, 512), render_flag |-> FALSE]
  ELSE [mc_res |-> mc_res, chunk_size |-> chunk_size,
        texture_res |-> texture_res, render_flag |-> render_flag]

\* lines 520-549: the values the detected GPU memory lets through
VramValues(total_vram, mc_res, chunk_size, texture_res) ==
  IF total_vram <= 0
  THEN [mc_res |-> Min(mc_res, 256), chunk_size |-> Min(chunk_size, 4096),
        texture_res |-> Min(texture_res, 1024),
        adjusted |-> chunk_size > 4096 \/ mc_res > 256 \/ texture_res > 1024]
  ELSE IF total_vram <= GiB4
  THEN [mc_res |-> Min(mc_res, 256), chunk_size |-> Min(chunk_size, 4096),
        texture_res |-> Min(texture_res, 2048),
        adjusted |-> chunk_size > 4096 \/ mc_res > 256 \/ texture_res > 2048]
  ELSE IF total_vram <= GiB8
  THEN [mc_res |-> Min(mc_res, 512), chunk_size |-> Min(chunk_size, 8192),
        texture_res |-> texture_res,
        adjusted |-> chunk_size > 8192 \/ mc_res > 512]
  ELSE [mc_res |-> mc_res, chunk_size |-> chunk_size,
        texture_res |-> texture_res, adjusted |-> FALSE]

\* a load check that never finds a high load
HighLoadNever(mc_res, chunk_size, texture_res) == FALSE

\* lines 571-581: load_score > 4.0, that is
\*   mc_res * max(chunk_size, 1) * max(texture_res, 512) > 4 * 128 * 512 * 512;
\* x * t > n is x > n \div t for positive integers, which keeps the numbers small
HighLoad(mc_res, chunk_size, texture_res) ==
  mc_res * Max(chunk_size, 1) > (4 * 128 * 512 * 512) \div Max(texture_res, 512)

Args(input_path, output_dir, mc_resolution, bake_texture, chunk_size, texture_resolution, preview_mode, render_flag) ==
  [input_path |-> input_path, output_dir |-> output_dir,
   mc_resolution |-> mc_resolution, bake_texture |-> bake_texture,
   chunk_size |-> chunk_size, texture_resolution |-> texture_resolution,
   preview_mode |-> preview_mode, render_flag |-> render_flag]

\* What one call of on_run does, for the answers the user gives to the two
\* prompts: the variables it leaves, and the launch it schedules if any.
on_run(g, total_vram, confirm, high_risk) ==
  LET input_path == Strip(g.input_var)
      output_dir == Strip(g.output_var)
      bake_tex == g.bake_texture_var
      preview_delete == g.preview_delete_var
      safe_mode == g.safe_mode_var
      preview_mode == IF preview_delete THEN "delete" ELSE "keep"
      s == SafeModeValues(safe_mode, g.mc_res_var, g.chunk_size_var,
                          g.texture_res_var, g.render_var)
      g1 == IF safe_mode
            THEN [g EXCEPT !.mc_res_var = s.mc_res, !.chunk_size_var = s.chunk_size,
                           !.texture_res_var = s.texture_res, !.render_var = FALSE]
            ELSE g
      v == VramValues(total_vram, s.mc_res, s.chunk_size, s.texture_res)
      g2 == IF v.adjusted
            THEN [g1 EXCEPT !.mc_res_var = v.mc_res, !.chunk_size_var = v.chunk_size,
                            !.texture_res_var = v.texture_res]
            ELSE g1
      risky == HighLoad(v.mc_res, v.chunk_size, v.texture_res)
      none == Args(<<>>, <<>>, 0, FALSE, 0, 0, "keep", FALSE)
      nodata == NullData
  IN  IF input_path = <<>> \/ output_dir = <<>>
      THEN [end |-> "warning", g |-> g, args |-> none, prefs |-> nodata,
            asked_vram |-> FALSE, asked_risk |-> FALSE]
      ELSE IF v.adjusted /\ ~confirm
      THEN [end |-> "cancelled",
            g |-> [g2 EXCEPT !.status_var = Status("cancelled_by_user")],
            args |-> none, prefs |-> nodata,
            asked_vram |-> TRUE, asked_risk |-> FALSE]
      ELSE IF risky /\ ~high_risk
      THEN [end |-> "cancelled",
            g |-> [g2 EXCEPT !.status_var = Status("cancelled_high_risk")],
            args |-> none, prefs |-> nodata,
            asked_vram |-> v.adjusted, asked_risk |-> TRUE]
      ELSE [end |-> "launch",
            g |-> [g2 EXCEPT !.status_var =
                     IF bake_tex THEN Status("running_bake") ELSE Status("running")],
            args |-> Args(input_path, output_dir, v.mc_res, bake_tex, v.chunk_size,
                          v.texture_res, preview_mode, s.render_flag),
            prefs |-> PrefsData(input_path, output_dir, v.mc_res, bake_tex,
                                v.chunk_size, v.texture_res, preview_delete,
                                s.render_flag, safe_mode),
            asked_vram |-> v.adjusted, asked_risk |-> risky]

\* a message box and the answer it got; showwarning has the one answer
Box(box, answer) == [box |-> box, answer |-> answer]

\* the message boxes of a call of on_run (lines 487-492, 556-561, 582-590)
Shown(r, confirm, high_risk) ==
  IF r.end = "warning" THEN <<Box("warning", TRUE)>>
  ELSE (IF r.asked_vram THEN <<Box("vram_adjusted", confirm)>> ELSE <<>>)
       \o (IF r.asked_risk THEN <<Box("high_risk", high_risk)>> ELSE <<>>)

\* the posted on_done callbacks
Pending(q) == Len(SelectSeq(q, LAMBDA e : e.kind = "done"))

\* the runs that have a thread or a posted callback
RunsAlive ==
  {threads[i].run : i \in 1..Len(threads)} \cup {afterq[i].run : i \in 1..Len(afterq)}

\* the runs between on_run and the last of their callbacks
Active == Len(timers) + Cardinality(RunsAlive)

\* a click on the start button
OnRun ==
  /\ Enabled("run_button")
  /\ Active = 0 \/ (env.impatient /\ Active < MaxActive)
  /\ \E confirm \in BOOLEAN, high_risk \in BOOLEAN, outcome \in SaveOutcomes :
       LET r == on_run(tkv, vram, confirm, high_risk)
       IN  /\ tkv' = r.g
           /\ prompts' = Shown(r, confirm, high_risk)
           /\ IF r.end = "launch"
              THEN /\ prefFile' = SavePrefs(prefFile, r.prefs, outcome)
                   /\ wstate' = disable_ui(wstate)
                   /\ timers' = Append(timers, r.args)
              ELSE UNCHANGED <<prefFile, wstate, timers>>
  /\ UNCHANGED <<app, vram, threads, afterq, previews, vendor, env, inst, marker>>

(***************************************************************************)
(* run_triposr: the command line.  An element of cmd is a fixed word, the  *)
(* text of a number, or a path.                                            *)
(***************************************************************************)
Word(w) == [word |-> w, num |-> 0, path |-> <<>>]
Num(n) == [word |-> "<number>", num |-> n, path |-> <<>>]
Path(p) == [word |-> "<path>", num |-> 0, path |-> p]

RECURSIVE Paths(_)
Paths(images) ==
  IF images = <<>> THEN <<>> ELSE <<Path(Head(images))>> \o Paths(Tail(images))

\* a command line that carries --chunk-size for a chunk size of 0 as well
BuildCmdChunkFromZero(images, output_dir, mc_resolution, bake_texture, chunk_size, texture_resolution, render_flag) ==
  LET cmd0 == <<Word("sys.executable"), Word("run.py")>> \o Paths(images)
                \o <<Word("--output-dir"), Path(output_dir),
                     Word("--mc-resolution"), Num(mc_resolution)>>
      cmd1 == IF ~bake_texture
              THEN cmd0 \o <<Word("--model-save-format"), Word("glb")>>
              ELSE cmd0
      cmd2 == IF chunk_size >= 0
              THEN cmd1 \o <<Word("--chunk-size"), Num(chunk_size)>>
              ELSE cmd1
      cmd3 == IF bake_texture
              THEN cmd2 \o <<Word("--bake-texture"), Word("--device"), Word("cpu"),
                             Word("--texture-resolution"), Num(texture_resolution)>>
              ELSE cmd2
  IN  IF render_flag THEN cmd3 \o <<Word("--render")>> ELSE cmd3

\* lines 81-105
BuildCmd(images, output_dir, mc_resolution, bake_texture, chunk_size, texture_resolution, render_flag) ==
  LET cmd0 == <<Word("sys.executable"), Word("run.py")>> \o Paths(images)
                \o <<Word("--output-dir"), Path(output_dir),
                     Word("--mc-resolution"), Num(mc_resolution)>>
      cmd1 == IF ~bake_texture
              THEN cmd0 \o <<Word("--model-save-format"), Word("glb")>>
              ELSE cmd0
      cmd2 == IF chunk_size > 0
              THEN cmd1 \o <<Word("--chunk-size"), Num(chunk_size)>>
              ELSE cmd1
      cmd3 == IF bake_texture
              THEN cmd2 \o <<Word("--bake-texture"), Word("--device"), Word("cpu"),
                             Word("--texture-resolution"), Num(texture_resolution)>>
              ELSE cmd2
  IN  IF render_flag THEN cmd3 \o <<Word("--render")>> ELSE cmd3

(***************************************************************************)
(* The log of the external tool.  A line is the sequence of its pieces: a  *)
(* blank, some other text, or one of the phrases below.  The pieces are    *)
(* chosen so that no phrase arises across two of them.                     *)
(***************************************************************************)
Finished == "Exporting mesh and texture finished"

\* the pieces that end in "..."
Dotted ==
  {"...", "Processing images ...", "Running model ...", "Extracting mesh ...",
   "Baking texture ...", "Exporting mesh and texture ..."}

\* phrase in line
Contains(line, phrase) ==
  \E i \in 1..Len(line) :
    \/ line[i] = phrase
    \/ phrase = "..." /\ line[i] \in Dotted

\* msg.startswith(prefix), for the prefixes of status_cb
StartsWith(msg, prefix) ==
  /\ msg # <<>>
  /\ CASE prefix = "Processing images" -> msg[1] = "Processing images ..."
       [] prefix = "Running image" -> msg[1] = "Running image"
       [] prefix = "Running model" -> msg[1] = "Running model ..."
       [] prefix = "Extracting mesh" -> msg[1] = "Extracting mesh ..."
       [] prefix = "Baking texture" -> msg[1] = "Baking texture ..."
       [] prefix = "Exporting mesh and texture finished" -> msg[1] = Finished
       [] prefix = "Exporting mesh and texture" ->
            msg[1] \in {Finished, "Exporting mesh and texture ..."}
       [] OTHER -> FALSE

Callback(msg) == [called |-> TRUE, msg |-> msg]
NoCallback == [called |-> FALSE, msg |-> <<>>]

\* lines 126-140 of run_triposr: the call of status_callback a line causes
Classify(raw_line) ==
  LET line == Strip(raw_line)
  IN  IF Contains(line, "Processing images ...")
      THEN Callback(<<"Processing images ...">>)
      ELSE IF Contains(line, "Running image") /\ Contains(line, "...")
      THEN Callback(<<"Running image", "1/1", "...">>)
      ELSE IF Contains(line, "Running model ...")
      THEN Callback(<<"Running model ...">>)
      ELSE IF Contains(line, "Extracting mesh ...")
      THEN Callback(<<"Extracting mesh ...">>)
      ELSE IF Contains(line, "Baking texture ...")
      THEN Callback(<<"Baking texture ...">>)
      ELSE IF Contains(line, Finished)
      THEN Callback(line)
      ELSE IF Contains(line, "Exporting mesh and texture ...")
      THEN Callback(<<"Exporting mesh and texture ...">>)
      ELSE NoCallback

\* a stage label; the label of step 7 quotes msg, and a msg that no rule of
\* status_cb matches is shown as it is
Label(text, msg) == [text |-> text, code |-> 0, line |-> msg]

\* status_cb (lines 642-661): the text it posts for the status label
status_cb(msg) ==
  IF StartsWith(msg, "Processing images") THEN Label("Step 1", <<>>)
  ELSE IF StartsWith(msg, "Running image") THEN Label("Step 2", <<>>)
  ELSE IF StartsWith(msg, "Running model") THEN Label("Step 3", <<>>)
  ELSE IF StartsWith(msg, "Extracting mesh") THEN Label("Step 4", <<>>)
  ELSE IF StartsWith(msg, "Baking texture") THEN Label("Step 5", <<>>)
  ELSE IF StartsWith(msg, "Exporting mesh and texture finished") THEN Label("Step 7", msg)
  ELSE IF StartsWith(msg, "Exporting mesh and texture") THEN Label("Step 6", <<>>)
  ELSE Label("msg", msg)

\* log lines of the tool: one for each rule, lines that several rules match,
\* lines that none matches, and the finished line as the tool's logger
\* prints it, after other text
LogLines ==
  {<<>>, <<"x">>, <<"Running image">>, <<"...">>,
   <<"Processing images ...">>, <<"Running image", "...">>, <<"Running model ...">>,
   <<"Extracting mesh ...">>, <<"Baking texture ...">>,
   <<"Exporting mesh and texture ...">>,
   <<Finished>>, <<" ", Finished, " ">>, <<"x", Finished>>,
   <<Finished, "Exporting mesh and texture ...">>,
   <<"Running model ...", "Processing images ...">>}

(***************************************************************************)
(* The worker thread of _run_triposr_async.                                *)
(***************************************************************************)
\* what _collect_images may find at the input path
ImageLists == {<<>>, <<<<"a">>>>, <<<<"a">>, <<"b">>>>}

\* lines 72-79: run_triposr gives up, with 1, before it spawns anything
GivesUp(run_py, images) == ~run_py \/ images = <<>>

\* the value run_triposr returns: 1 when it gave up, else proc.wait()
ReturnCode(gave_up, exit_code) == IF gave_up THEN 1 ELSE exit_code

\* the closure on_done, as self.after(0, on_done) posts it; spawned and
\* exit_code record what happened to the external process
\* it belongs to the run `run' and is posted after `seq' lines were read
DoneEvent(rc, args, spawned, exit_code, run, seq) ==
  [kind |-> "done", rc |-> rc, preview_mode |-> args.preview_mode,
   output_dir |-> args.output_dir, spawned |-> spawned, exit_code |-> exit_code,
   run |-> run, seq |-> seq, text |-> Status("idle")]

\* the closure lambda: self.status_var.set(text) that status_cb posts for the
\* line number seq of the run
StatusEvent(text, run, seq) ==
  [kind |-> "status", rc |-> 0, preview_mode |-> "keep", output_dir |-> <<>>,
   spawned |-> TRUE, exit_code |-> 0, run |-> run, seq |-> seq, text |-> text]

\* a reversed queue: the newest callback runs first
After0Newest(q, e) == <<e>> \o q

\* self.after(0, callback): the callbacks run in the order they were posted
After0(q, e) == Append(q, e)

\* a name for a new run: the first number that no run alive carries
NewRun == CHOOSE r \in 1..(Cardinality(RunsAlive) + 1) :
            r \notin RunsAlive /\ \A q \in 1..(r - 1) : q \in RunsAlive

\* a worker thread reading the output of the external process it spawned:
\* the arguments of its call of run_triposr, the command line of the process,
\* the run it works for, the lines it has read and the last of them
Thread(args, cmd, run) ==
  [args |-> args, cmd |-> cmd, run |-> run, read |-> 0, raw_line |-> <<>>]

RemoveAt(q, i) == SubSeq(q, 1, i - 1) \o SubSeq(q, i + 1, Len(q))

\* The timer of self.after(100, ...) fires: _run_triposr_async starts the
\* worker, which enters run_triposr.  It gives up and posts on_done, or it
\* spawns the external process and blocks on its output; subprocess.Popen may
\* raise, which ends the thread.  The worker's steps up to there touch nothing
\* the main thread shares, so they are one step with the start of the thread.
RunTriposrAsync ==
  /\ app = "open"
  /\ timers # <<>>
  /\ timers' = Tail(timers)
  /\ \E images \in ImageLists, popen_ok \in BOOLEAN :
       LET a == Head(timers)
       IN  IF GivesUp(vendor.run_py, images)
           THEN /\ threads' = threads
                /\ afterq' = After0(afterq,
                     DoneEvent(ReturnCode(TRUE, 0), a, FALSE, 0, NewRun, 0))
           ELSE IF ~popen_ok
           THEN UNCHANGED <<threads, afterq>>
           ELSE /\ threads' = Append(threads,
                     Thread(a, BuildCmd(images, a.output_dir, a.mc_resolution,
                                        a.bake_texture, a.chunk_size,
                                        a.texture_resolution, a.render_flag),
                            NewRun))
                /\ afterq' = afterq
  /\ UNCHANGED <<app, tkv, wstate, prefFile, vram, previews, vendor, env, inst, marker, prompts>>

\* the worker reads the next line of the process (lines 121-140) and, when a
\* rule matches it, status_cb posts the update of the status label.  A line
\* that does not decode raises out of the loop and ends the thread.
ReadLine ==
  /\ app = "open"
  /\ \E i \in 1..Len(threads), raw_line \in env.lines, decoded \in BOOLEAN :
       LET t == threads[i]
           c == Classify(raw_line)
       IN  /\ t.read < MaxLines
           /\ IF ~decoded
              THEN /\ threads' = RemoveAt(threads, i)
                   /\ afterq' = afterq
              ELSE /\ threads' = [threads EXCEPT ![i] =
                                    [t EXCEPT !.read = @ + 1, !.raw_line = raw_line]]
                   /\ afterq' = IF c.called
                                THEN After0(afterq,
                                            StatusEvent(status_cb(c.msg), t.run, t.read + 1))
                                ELSE afterq
  /\ UNCHANGED <<app, tkv, wstate, prefFile, vram, timers, previews, vendor, env, inst, marker, prompts>>

\* the main loop runs the oldest posted callback: a status update
ApplyStatus ==
  /\ app = "open"
  /\ afterq # <<>>
  /\ Head(afterq).kind = "status"
  /\ tkv' = [tkv EXCEPT !.status_var = Head(afterq).text]
  /\ afterq' = Tail(afterq)
  /\ UNCHANGED <<app, wstate, prefFile, vram, timers, threads, previews, vendor, env, inst, marker, prompts>>

\* the external process ends: proc.wait() returns its exit code, run_triposr
\* returns it and the worker posts on_done.  A run that succeeds has written
\* the preview image input.png into the output directory.
WorkerEnd ==
  /\ app = "open"
  /\ \E i \in 1..Len(threads), exit_code \in ExitCodes :
       LET t == threads[i]
       IN  /\ threads' = RemoveAt(threads, i)
           /\ afterq' = After0(afterq,
                DoneEvent(ReturnCode(FALSE, exit_code), t.args, TRUE, exit_code,
                          t.run, t.read))
           /\ previews' = IF exit_code = 0
                          THEN previews \cup {t.args.output_dir}
                          ELSE previews
  /\ UNCHANGED <<app, tkv, wstate, prefFile, vram, timers, vendor, env, inst, marker, prompts>>

\* an on_done that reports completion whatever the code
DoneStatusAlwaysDone(rc) == Status("done")

\* lines 675-709: the status on_done leaves
DoneStatus(rc) == IF rc = 0 THEN Status("done") ELSE ErrorStatus(rc)

\* the main loop runs the oldest posted callback: on_done
OnDone ==
  /\ app = "open"
  /\ afterq # <<>>
  /\ Head(afterq).kind = "done"
  /\ LET e == Head(afterq)
     IN  /\ tkv' = [tkv EXCEPT !.status_var = DoneStatus(e.rc)]
         /\ \E unlinked \in BOOLEAN :
              previews' = IF e.rc = 0 /\ e.preview_mode = "delete" /\ unlinked
                          THEN previews \ {e.output_dir}
                          ELSE previews
  /\ afterq' = Tail(afterq)
  /\ wstate' = enable_ui(wstate)
  /\ UNCHANGED <<app, prefFile, vram, timers, threads, vendor, env, inst, marker, prompts>>

\* the user closes the window: mainloop returns and the process ends, and its
\* daemon threads and pending callbacks with it
Close ==
  /\ app = "open"
  /\ app' = "closed"
  /\ tkv' = FreshVars
  /\ wstate' = AllNormal
  /\ timers' = <<>>
  /\ threads' = <<>>
  /\ afterq' = <<>>
  /\ prompts' = <<>>
  /\ UNCHANGED <<prefFile, vram, previews, vendor, env, inst, marker>>

\* the machine's GPU, or the torch installation that reports it, changes
VramChange ==
  /\ \E v \in env.vrams \ {vram} : vram' = v
  /\ UNCHANGED <<app, tkv, wstate, prefFile, timers, threads, afterq, previews, vendor, env, inst, marker, prompts>>

(***************************************************************************)
(* The front-end.                                                          *)
(***************************************************************************)
\* The users and machines of the model: the file and the machine a behaviour
\* starts from, and what its user does.  Every user opens and closes the
\* window; the first ones do nothing else, on every file and machine.
Setup(prefs, vrams, touch, impatient) ==
  [prefs |-> prefs, vrams |-> vrams, touch |-> touch, impatient |-> impatient,
   lines |-> {}]

\* the same with a tool that prints the given lines
Printing(setup, lines) == [setup EXCEPT !.lines = lines]

Setups ==
  {Setup(p, {v}, {}, FALSE) : p \in PrefSamples, v \in VramSamples}
  \cup
  {Setup(PathPrefs, {2 * GiB8}, {"run_button", "preview_check"}, TRUE),
   Setup(PathPrefs, {GiB8}, {"run_button", "bake_check"}, FALSE),
   Setup(PathPrefs, {0, 2 * GiB8}, {"run_button", "mc_scale"}, FALSE),
   Setup(PathPrefs, {2 * GiB8}, {"run_button", "mc_scale", "safe_check"}, FALSE),
   Setup(BigPrefs, {GiB8}, {"run_button", "chunk_scale", "safe_check"}, FALSE),
   Setup(BigPrefs, {GiB8}, {"run_button", "render_check", "safe_check"}, FALSE),
   Setup(BigPrefs, {GiB4, 2 * GiB8}, {"run_button", "tex_scale"}, FALSE),
   Setup(BigPrefs, {0}, {"run_button", "chunk_scale"}, FALSE),
   Setup(BigPrefs, {GiB4}, {"run_button", "tex_scale"}, FALSE),
   Setup(OddPrefs, {GiB4},
         {"run_button", "input_entry", "output_entry", "browse_input_button",
          "browse_output_button"}, FALSE),
   Printing(Setup(PathPrefs, {GiB8}, {"run_button"}, FALSE),
            {<<"Running model ...">>, <<"x", Finished>>})}

UpstreamRequirements == <<"torch", "transformers==4.35.0">>

(***************************************************************************)
(* tr_setup_deps.py.  A text file is the sequence of its words.            *)
(***************************************************************************)
\* exit codes of the package manager
PipCodes == {0, 1, 2}

\* a patch that deletes the pinned requirement instead of relaxing it
DropPin(text) == SelectSeq(text, LAMBDA w : w # "transformers==4.35.0")

\* text.replace("transformers==4.35.0", "transformers>=4.39.0")
RECURSIVE ReplacePin(_)
ReplacePin(text) ==
  IF text = <<>> THEN <<>>
  ELSE <<IF Head(text) = "transformers==4.35.0"
         THEN "transformers>=4.39.0" ELSE Head(text)>> \o ReplacePin(Tail(text))

\* patch_requirements: read_text or write_text may raise, and then the file
\* stays as it is
patch_requirements(v, read_ok, write_ok) ==
  IF ~v.req_exists \/ ~read_ok THEN v
  ELSE LET text == ReplacePin(v.req_text)
       IN  IF text # v.req_text /\ write_ok THEN [v EXCEPT !.req_text = text] ELSE v

Idle == [pc |-> "idle", skip |-> FALSE, calls |-> <<>>, returned |-> FALSE, ret |-> 0]

Call(step, rc) == [step |-> step, rc |-> rc]

\* main, up to its first package-manager call (lines 51-65)
MainStart ==
  /\ inst.pc = "idle"
  /\ IF ~vendor.req_exists
     THEN /\ inst' = [inst EXCEPT !.pc = "done", !.returned = TRUE, !.ret = 1]
          /\ vendor' = vendor
     ELSE /\ \E read_ok \in BOOLEAN, write_ok \in BOOLEAN :
               vendor' = patch_requirements(vendor, read_ok, write_ok)
          /\ inst' = [inst EXCEPT !.skip = marker,
                                  !.pc = IF marker THEN "transformers" ELSE "cpu_torch"]
  /\ UNCHANGED <<app, tkv, wstate, prefFile, vram, timers, threads, afterq, previews,
                 env, marker, prompts>>

\* a main that goes on to the next step whatever the exit code
AfterPipNeverStops(i, step, rc, fatal, next) ==
  [i EXCEPT !.calls = Append(@, Call(step, rc)), !.pc = next]

\* run([... "pip", "install", ...]) and the branch on its exit code: a failing
\* fatal step returns its code, any other outcome goes on to the next step
AfterPip(i, step, rc, fatal, next) ==
  IF rc # 0 /\ fatal
  THEN [i EXCEPT !.calls = Append(@, Call(step, rc)), !.pc = "done",
                 !.returned = TRUE, !.ret = rc]
  ELSE [i EXCEPT !.calls = Append(@, Call(step, rc)), !.pc = next]

InstallerFrame ==
  UNCHANGED <<app, tkv, wstate, prefFile, vram, timers, threads, afterq, previews,
              vendor, env, marker, prompts>>

\* lines 66-84
InstallCpuTorch ==
  /\ inst.pc = "cpu_torch"
  /\ \E rc \in PipCodes : inst' = AfterPip(inst, "cpu_torch", rc, TRUE, "transformers")
  /\ InstallerFrame

\* lines 86-90
InstallTransformers ==
  /\ inst.pc = "transformers"
  /\ \E rc \in PipCodes : inst' = AfterPip(inst, "transformers", rc, FALSE, "requirements")
  /\ InstallerFrame

\* lines 92-97
InstallRequirements ==
  /\ inst.pc = "requirements"
  /\ \E rc \in PipCodes : inst' = AfterPip(inst, "requirements", rc, TRUE, "import")
  /\ InstallerFrame

\* lines 99-106: the marker is written when torchmcubes imports
ImportTorchmcubes ==
  /\ inst.pc = "import"
  /\ \E imported \in BOOLEAN : marker' = (marker \/ imported)
  /\ inst' = [inst EXCEPT !.pc = "onnxruntime"]
  /\ UNCHANGED <<app, tkv, wstate, prefFile, vram, timers, threads, afterq, previews,
                 vendor, env, prompts>>

\* lines 108-112
InstallOnnxruntime ==
  /\ inst.pc = "onnxruntime"
  /\ \E rc \in PipCodes : inst' = AfterPip(inst, "onnxruntime", rc, FALSE, "gradio")
  /\ InstallerFrame

\* lines 114-123
InstallGradio ==
  /\ inst.pc = "gradio"
  /\ \E rc \in PipCodes :
       inst' = AfterPip(inst, "gradio", rc, TRUE,
                        IF inst.skip THEN "numpy" ELSE "cuda_torch")
  /\ InstallerFrame

\* lines 124-139
ReinstallCudaTorch ==
  /\ inst.pc = "cuda_torch"
  /\ \E rc \in PipCodes : inst' = AfterPip(inst, "cuda_torch", rc, FALSE, "numpy")
  /\ InstallerFrame

\* lines 141-157
ReinstallNumpy ==
  /\ inst.pc = "numpy"
  /\ \E rc \in PipCodes :
       inst' = LET i == AfterPip(inst, "numpy", rc, TRUE, "done")
               IN  IF rc = 0 THEN [i EXCEPT !.returned = TRUE, !.ret = 0] ELSE i
  /\ InstallerFrame

\* raise SystemExit(main()): the script is over, and may be run again
SystemExit ==
  /\ inst.pc = "done"
  /\ inst' = Idle
  /\ InstallerFrame

InstallerNext ==
  \/ MainStart
  \/ InstallCpuTorch
  \/ InstallTransformers
  \/ InstallRequirements
  \/ ImportTorchmcubes
  \/ InstallOnnxruntime
  \/ InstallGradio
  \/ ReinstallCudaTorch
  \/ ReinstallNumpy
  \/ SystemExit

Init ==
  /\ app = "closed"
  /\ tkv = FreshVars
  /\ wstate = AllNormal
  /\ \E s \in Setups :
       /\ prefFile = s.prefs
       /\ vram \in s.vrams
       /\ env = [touch |-> s.touch, vrams |-> s.vrams, impatient |-> s.impatient,
                 lines |-> s.lines]
  /\ timers = <<>>
  /\ threads = <<>>
  /\ afterq = <<>>
  /\ previews = {}
  /\ vendor \in {[run_py |-> r, req_exists |-> TRUE, req_text |-> UpstreamRequirements] :
                   r \in BOOLEAN}
  /\ inst = Idle
  /\ prompts = <<>>
  /\ marker = FALSE

Next ==
  \/ Construct
  \/ TypeInput
  \/ TypeOutput
  \/ browse_input
  \/ browse_output
  \/ MoveMcScale
  \/ MoveChunkScale
  \/ MoveTexScale
  \/ ToggleBake
  \/ TogglePreviewDelete
  \/ ToggleRender
  \/ ToggleSafeMode
  \/ OnRun
  \/ RunTriposrAsync
  \/ ReadLine
  \/ ApplyStatus
  \/ WorkerEnd
  \/ OnDone
  \/ Close
  \/ VramChange

Spec == Init /\ [][Next]_vars

(***************************************************************************)
(* The installer alone, on every requirements.txt of the model, with and   *)
(* without the marker file.                                                *)
(***************************************************************************)
RequirementsSamples ==
  {<<"torch", "transformers==4.35.0">>,
   <<"transformers==4.35.0", "torch", "transformers==4.35.0", "numpy">>,
   <<"torch", "transformers>=4.39.0">>}

VendorSamples ==
  {[run_py |-> TRUE, req_exists |-> FALSE, req_text |-> <<>>]}
  \cup {[run_py |-> TRUE, req_exists |-> TRUE, req_text |-> t] : t \in RequirementsSamples}

InitInstaller ==
  /\ app = "closed"
  /\ tkv = FreshVars
  /\ wstate = AllNormal
  /\ prefFile = NoFile
  /\ vram = 0
  /\ env = [touch |-> {}, vrams |-> {0}, impatient |-> FALSE, lines |-> {}]
  /\ timers = <<>>
  /\ threads = <<>>
  /\ afterq = <<>>
  /\ previews = {}
  /\ vendor \in VendorSamples
  /\ inst = Idle
  /\ prompts = <<>>
  /\ marker \in BOOLEAN

SpecInstaller == InitInstaller /\ [][InstallerNext]_vars

(***************************************************************************)
(* The files: the installer, run while the window is closed, and then the  *)
(* front-end of a user who starts runs and has the previews deleted.       *)
(***************************************************************************)
InitFiles ==
  /\ app = "closed"
  /\ tkv = FreshVars
  /\ wstate = AllNormal
  /\ prefFile = PathPrefs
  /\ vram = GiB8
  /\ env = [touch |-> {"run_button", "preview_check"}, vrams |-> {GiB8},
            impatient |-> FALSE, lines |-> {}]
  /\ timers = <<>>
  /\ threads = <<>>
  /\ afterq = <<>>
  /\ previews = {}
  /\ vendor \in VendorSamples
  /\ inst = Idle
  /\ prompts = <<>>
  /\ marker \in BOOLEAN

FilesNext ==
  \/ /\ inst.pc = "idle"
     /\ \/ Construct
        \/ TogglePreviewDelete
        \/ OnRun
        \/ RunTriposrAsync
        \/ WorkerEnd
        \/ OnDone
        \/ Close
  \/ /\ app = "closed"
     /\ InstallerNext

SpecFiles == InitFiles /\ [][FilesNext]_vars

(***************************************************************************)
(* run_triposr on every combination of the parameter samples: a window     *)
(* whose timer is about to call _run_triposr_async.                        *)
(***************************************************************************)
CallSamples ==
  {Args(<<"i">>, <<"o">>, mc, bake, chunk, tex, "keep", render) :
     mc \in {64, 96}, bake \in BOOLEAN, chunk \in {0 - 1, 0, 16},
     tex \in {256, 1024}, render \in BOOLEAN}

InitCmd ==
  /\ app = "open"
  /\ tkv = Constructed(NoFile, 0)
  /\ wstate = disable_ui(AllNormal)
  /\ prefFile = NoFile
  /\ vram = 0
  /\ env = [touch |-> {}, vrams |-> {0}, impatient |-> FALSE, lines |-> {}]
  /\ \E a \in CallSamples : timers = <<a>>
  /\ threads = <<>>
  /\ afterq = <<>>
  /\ previews = {}
  /\ vendor = [run_py |-> TRUE, req_exists |-> TRUE, req_text |-> UpstreamRequirements]
  /\ inst = Idle
  /\ prompts = <<>>
  /\ marker = FALSE

CmdNext ==
  \/ RunTriposrAsync
  \/ WorkerEnd
  \/ OnDone

SpecCmd == InitCmd /\ [][CmdNext]_vars

(***************************************************************************)
(* The runs of a user who only starts them one after the other, with a     *)
(* tool that prints any of the log lines.  The timer of on_run fires, a    *)
(* posted callback runs and the external process ends, each in the end.    *)
(***************************************************************************)
InitRun ==
  /\ app = "closed"
  /\ tkv = FreshVars
  /\ wstate = AllNormal
  /\ prefFile = PathPrefs
  /\ vram = GiB8
  /\ env = [touch |-> {"run_button"}, vrams |-> {GiB8}, impatient |-> FALSE,
            lines |-> LogLines]
  /\ timers = <<>>
  /\ threads = <<>>
  /\ afterq = <<>>
  /\ previews = {}
  /\ vendor = [run_py |-> TRUE, req_exists |-> TRUE, req_text |-> UpstreamRequirements]
  /\ inst = Idle
  /\ prompts = <<>>
  /\ marker = FALSE

RunNext ==
  \/ Construct
  \/ OnRun
  \/ RunTriposrAsync
  \/ ReadLine
  \/ ApplyStatus
  \/ WorkerEnd
  \/ OnDone
  \/ Close

SpecRun ==
  /\ InitRun
  /\ [][RunNext]_vars
  /\ WF_vars(RunTriposrAsync)
  /\ WF_vars(ApplyStatus)
  /\ WF_vars(WorkerEnd)
  /\ WF_vars(OnDone)

(***************************************************************************)
(* Properties.                                                             *)
(***************************************************************************)
\* the step is on_run scheduling a launch: only on_run adds a timer
Launches == Len(timers') = Len(timers) + 1
\* the launch the step schedules
Launched == timers'[Len(timers')]
\* the step is the construction of the window
Constructs == app = "closed" /\ app' = "open"
\* the step is on_done running
RunsOnDone ==
  app' = "open" /\ afterq # <<>> /\ Head(afterq).kind = "done" /\ afterq' = Tail(afterq)

\* every launch on its way: scheduled, or inside run_triposr
Launchers ==
  {timers[i] : i \in 1..Len(timers)} \cup {threads[i].args : i \in 1..Len(threads)}

IsPow2In(v, range) == \E e \in range[1]..range[2] : v = Pow2(e)

\* the runs whose worker thread has started and whose on_done has not run
Started == Len(threads) + Pending(afterq)

\* C1: at most one inference run is in progress at any time: while a run is
\* between its on_run and the end of its on_done, no second worker thread or
\* external process is started, whatever the user does.
C1_SingleRun == Started <= 1

\* C2, as stated: the mc-resolution, chunk-size and texture-resolution handed
\* to the launcher are each a power of two with its exponent in the range of
\* the parameter (mc 6..9, chunk 4..13, texture 8..12).
C2_AllPowersOfTwo ==
  \A a \in Launchers :
    /\ IsPow2In(a.mc_resolution, <<6, 9>>)
    /\ IsPow2In(a.chunk_size, <<4, 13>>)
    /\ IsPow2In(a.texture_resolution, <<8, 12>>)

\* C2, amended: the chunk-size and the texture-resolution handed to the
\* launcher are powers of two with the exponent in range; the mc-resolution
\* is such a power of two or 96, the cap of safe mode, which is not one.
C2_PowersOfTwoOrSafeCap ==
  \A a \in Launchers :
    /\ IsPow2In(a.mc_resolution, <<6, 9>>) \/ a.mc_resolution = 96
    /\ IsPow2In(a.chunk_size, <<4, 13>>)
    /\ IsPow2In(a.texture_resolution, <<8, 12>>)

\* a launch with the mc-resolution 96 that safe mode left
C2_Witness == \E a \in Launchers : a.mc_resolution = 96

\* C3: right after the construction of the window, for every preference file
\* and every amount of GPU memory, each slider exponent is between the minimum
\* of its range and the maximum of the memory tier (no GPU 8, 11, 10; at most
\* 4 GiB 8, 11, 11; more 9, 12, 12), and each value variable is 2 to the
\* power of its exponent.
C3_ScalesAfterConstruction ==
  [][Constructs =>
       LET g == tkv'
           mc_max == IF vram <= 4096 THEN 8 ELSE 9
           chunk_max == IF vram <= 4096 THEN 11 ELSE 12
           tex_max == IF vram <= 0 THEN 10 ELSE IF vram <= 4096 THEN 11 ELSE 12
       IN  /\ g.mc_exp_var \in 6..mc_max
           /\ g.chunk_exp_var \in 4..chunk_max
           /\ g.tex_exp_var \in 8..tex_max
           /\ g.mc_res_var = 2 ^ g.mc_exp_var
           /\ g.chunk_size_var = 2 ^ g.chunk_exp_var
           /\ g.texture_res_var = 2 ^ g.tex_exp_var]_vars

\* a window just constructed, without a GPU, from a file whose mc-resolution
\* and chunk-size are above the tier: both exponents are at the tier maximum
C3_Witness ==
  /\ app = "open"
  /\ prefFile = BigPrefs
  /\ vram = 0
  /\ tkv.status_var = Status("idle")
  /\ tkv.mc_exp_var = 8 /\ tkv.mc_res_var = 256
  /\ tkv.chunk_exp_var = 11 /\ tkv.chunk_size_var = 2048

Fatal(step) == step \in {"cpu_torch", "requirements", "gradio", "numpy"}

ExpectedSteps(skip) ==
  IF skip
  THEN <<"transformers", "requirements", "onnxruntime", "gradio", "numpy">>
  ELSE <<"cpu_torch", "transformers", "requirements", "onnxruntime", "gradio",
         "cuda_torch", "numpy">>

\* C5: the installer calls the package manager in a fixed order; a failing
\* fatal step (CPU torch, requirements, gradio, NumPy) is the last call and
\* main returns its code; a failing non-fatal step (transformers,
\* onnxruntime, CUDA torch) neither ends the run nor shows in the return
\* code; main returns 0 exactly when requirements.txt exists and every
\* attempted fatal step succeeded, and then every step was attempted.
C5_InstallerContract ==
  LET calls == inst.calls
      n == Len(calls)
      order == ExpectedSteps(inst.skip)
  IN  /\ n <= Len(order)
      /\ \A i \in 1..n : calls[i].step = order[i]
      /\ \A i \in 1..n :
           (Fatal(calls[i].step) /\ calls[i].rc # 0)
             => (i = n /\ inst.returned /\ inst.ret = calls[i].rc)
      /\ inst.returned => (n = 0 \/ Fatal(calls[n].step))
      /\ inst.returned =>
           (inst.ret = 0 <=>
              (vendor.req_exists /\ \A i \in 1..n : Fatal(calls[i].step) => calls[i].rc = 0))
      /\ (inst.returned /\ inst.ret = 0) => n = Len(order)

\* main has returned 2, the code of the requirements install, after the
\* transformers pre-install failed with 1 and did not stop it
C5_Witness ==
  /\ inst.returned /\ inst.ret = 2
  /\ inst.calls = <<Call("cpu_torch", 0), Call("transformers", 1), Call("requirements", 2)>>

Attempted(step) == \E i \in 1..Len(inst.calls) : inst.calls[i].step = step

\* C6: an installer run that installed the CPU build of torch has attempted
\* the CUDA reinstall by the time the script ends; a run that found the
\* marker file invokes neither the CPU install nor the CUDA reinstall.
C6_SwapsBack ==
  /\ (inst.pc = "done" /\ Call("cpu_torch", 0) \in {inst.calls[i] : i \in 1..Len(inst.calls)})
       => Attempted("cuda_torch")
  /\ inst.skip => (~Attempted("cpu_torch") /\ ~Attempted("cuda_torch"))

\* C7: run_triposr returns the exit code of the process it spawned, or 1
\* when it spawned none (run.py missing, no image found); and on_done
\* reports completion if and only if that code is 0, else an error that
\* carries the code.
C7_ExitCodeReported ==
  /\ [](\A i \in 1..Len(afterq) :
          afterq[i].kind = "done" =>
            afterq[i].rc = IF afterq[i].spawned THEN afterq[i].exit_code ELSE 1)
  /\ [][RunsOnDone =>
          tkv'.status_var =
            IF Head(afterq).rc = 0
            THEN [text |-> "done", code |-> 0, line |-> <<>>]
            ELSE [text |-> "error", code |-> Head(afterq).rc, line |-> <<>>]]_vars

\* on_done has reported the exit code 2 of an external process
C7_Witness ==
  /\ tkv.status_var = [text |-> "error", code |-> 2, line |-> <<>>]
  /\ wstate["mc_scale"] = "normal"

\* the preference file holds exactly the values of launch a, with the
\* preview-delete and safe-mode settings of the window g
Records(file, a, g) ==
  /\ file.state = "dict"
  /\ file.has = PrefKeys
  /\ file.data["input_path"] = StrV(a.input_path)
  /\ file.data["output_dir"] = StrV(a.output_dir)
  /\ file.data["mc_resolution"] = IntV(a.mc_resolution)
  /\ file.data["bake_texture"] = BoolV(a.bake_texture)
  /\ file.data["chunk_size"] = IntV(a.chunk_size)
  /\ file.data["texture_resolution"] = IntV(a.texture_resolution)
  /\ file.data["render"] = BoolV(a.render_flag)
  /\ file.data["preview_delete"] = BoolV(g.preview_delete_var)
  /\ file.data["safe_mode"] = BoolV(g.safe_mode_var)

\* C8, as stated: whenever on_run schedules a launch, the preference file
\* has been written with exactly the values passed to the launcher and the
\* preview-delete and safe-mode settings.
C8_AlwaysRecorded == [][Launches => Records(prefFile', Launched, tkv')]_vars

\* C8, amended: whenever on_run schedules a launch it has tried to write the
\* preference file first; when the write succeeds the file holds exactly the
\* values passed to the launcher and the preview-delete and safe-mode
\* settings; a failed write is ignored, the launch goes on, and the file is
\* as it was or is left incomplete.
C8_RecordedUnlessWriteFails ==
  [][Launches =>
       \/ Records(prefFile', Launched, tkv')
       \/ prefFile' = prefFile
       \/ prefFile'.state = "garbage"]_vars

\* a launch that safe mode capped, and the file that records its values
C8_Witness ==
  /\ timers # <<>>
  /\ timers[1].mc_resolution = 96
  /\ timers[1].chunk_size = 128
  /\ Records(prefFile, timers[1], tkv)

\* C9: preferences round-trip: after a launch whose values were recorded, a
\* new window constructed under the same GPU memory would launch with the
\* recorded mc-resolution, chunk-size and texture-resolution, and its
\* bake-texture, preview-delete, render and safe-mode flags are the
\* recorded ones.  The machines looked at are those whose GPU memory never
\* changes, so that the old window, the launch and the new window all see
\* the same amount.
C9_RoundTrip ==
  [][(Launches /\ Records(prefFile', Launched, tkv') /\ env.vrams = {vram}) =>
       LET g == Constructed(prefFile', vram)
           r == on_run(g, vram, TRUE, TRUE)
       IN  /\ r.end = "launch"
           /\ r.args.mc_resolution = Launched.mc_resolution
           /\ r.args.chunk_size = Launched.chunk_size
           /\ r.args.texture_resolution = Launched.texture_resolution
           /\ g.bake_texture_var = Launched.bake_texture
           /\ g.preview_delete_var = tkv'.preview_delete_var
           /\ g.render_var = Launched.render_flag
           /\ g.safe_mode_var = tkv'.safe_mode_var]_vars

Carries(cmd, w) == \E j \in 1..Len(cmd) : cmd[j] = Word(w)
CarriesPair(cmd, w, x) ==
  \E j \in 1..(Len(cmd) - 1) : cmd[j] = Word(w) /\ cmd[j + 1] = x

\* C10: the command line of run_triposr always carries --output-dir and
\* --mc-resolution; --model-save-format glb if and only if bake_texture is
\* false; --bake-texture with --device cpu and --texture-resolution if and
\* only if bake_texture is true; --chunk-size if and only if chunk_size > 0;
\* --render if and only if render_flag is true.
C10_CommandLine ==
  \A i \in 1..Len(threads) :
    LET a == threads[i].args
        cmd == threads[i].cmd
    IN  /\ CarriesPair(cmd, "--output-dir", Path(a.output_dir))
        /\ CarriesPair(cmd, "--mc-resolution", Num(a.mc_resolution))
        /\ Carries(cmd, "--model-save-format") <=> ~a.bake_texture
        /\ CarriesPair(cmd, "--model-save-format", Word("glb")) <=> ~a.bake_texture
        /\ Carries(cmd, "--bake-texture") <=> a.bake_texture
        /\ Carries(cmd, "--device") <=> a.bake_texture
        /\ CarriesPair(cmd, "--device", Word("cpu")) <=> a.bake_texture
        /\ Carries(cmd, "--texture-resolution") <=> a.bake_texture
        /\ CarriesPair(cmd, "--texture-resolution", Num(a.texture_resolution))
             <=> a.bake_texture
        /\ Carries(cmd, "--chunk-size") <=> a.chunk_size > 0
        /\ CarriesPair(cmd, "--chunk-size", Num(a.chunk_size)) <=> a.chunk_size > 0
        /\ Carries(cmd, "--render") <=> a.render_flag

\* a process spawned for a chunk size of 0, with texture baking and rendering
C10_Witness ==
  \E i \in 1..Len(threads) :
    /\ threads[i].args.chunk_size = 0
    /\ threads[i].args.bake_texture
    /\ threads[i].args.render_flag
    /\ ~Carries(threads[i].cmd, "--chunk-size")
    /\ Carries(threads[i].cmd, "--render")

\* the step disables a widget
Disables == \E w \in Stateful : wstate[w] = "normal" /\ wstate'[w] = "disabled"

\* mc/128 * max(chunk,1)/512 * max(texture,512)/512 > 4.0.  Every value a
\* launch can carry makes mc * chunk a multiple of 512 and max(texture,512) a
\* multiple of 512, so the two quotients are exact and the comparison is
\* (mc * chunk / 512) * (texture / 512) > 4 * 128.
ScoreAboveFour(a) ==
  ((a.mc_resolution * Max(a.chunk_size, 1)) \div 512)
    * (Max(a.texture_resolution, 512) \div 512) > 4 * 128

\* C13: a launch is scheduled, the preference file is written and the UI is
\* disabled only by an on_run whose input path and output directory are both
\* non-empty and whose every prompt was answered yes; a launch with a load
\* score above 4.0 has had its high-risk prompt confirmed; so an aborted
\* on_run starts nothing, leaves the preference file and disables nothing.
C13_LaunchOnlyWhenConfirmed ==
  [][(Launches \/ prefFile' # prefFile \/ Disables) =>
       /\ Launches
       /\ Strip(tkv.input_var) # <<>>
       /\ Strip(tkv.output_var) # <<>>
       /\ Launched.input_path # <<>> /\ Launched.output_dir # <<>>
       /\ \A i \in 1..Len(prompts') :
            prompts'[i].box # "warning" /\ prompts'[i].answer
       /\ ScoreAboveFour(Launched) =>
            \E i \in 1..Len(prompts') :
              prompts'[i] = [box |-> "high_risk", answer |-> TRUE]]_vars

\* a launch made after the user confirmed both the lowered values and the
\* high load
C13_Witness ==
  /\ timers # <<>>
  /\ ScoreAboveFour(timers[1])
  /\ prompts = <<[box |-> "vram_adjusted", answer |-> TRUE],
                 [box |-> "high_risk", answer |-> TRUE]>>
  /\ wstate["mc_scale"] = "disabled"

\* C14: with low-memory safe mode enabled, every launch on_run makes has
\* mc-resolution <= 96, chunk-size <= 128, texture-resolution <= 512 and
\* rendering off, wherever the sliders and the render checkbox stand and
\* whatever the GPU memory is.
C14_SafeModeCaps ==
  [][(Launches /\ tkv.safe_mode_var) =>
       /\ Launched.mc_resolution <= 96
       /\ Launched.chunk_size <= 128
       /\ Launched.texture_resolution <= 512
       /\ ~Launched.render_flag]_vars

\* a safe-mode launch from sliders that stand at 512, 4096 and 1024
C14_Witness ==
  /\ timers # <<>>
  /\ tkv.safe_mode_var
  /\ tkv.mc_exp_var = 9 /\ tkv.chunk_exp_var = 12 /\ tkv.tex_exp_var = 10
  /\ timers[1].mc_resolution = 96
  /\ timers[1].chunk_size = 128
  /\ timers[1].texture_resolution = 512
  /\ ~timers[1].render_flag

\* C15: after an on_run that launches, for each of mc-resolution, chunk-size
\* and texture-resolution, what the UI shows (the slider exponent and the
\* text "value (2^exp)" beside it) is the value the launch uses, which is
\* also the value in the value variable: values that on_run lowered are
\* written back to the UI.
C15_UiShowsValuesInEffect ==
  [][Launches =>
       LET g == tkv'
           a == Launched
       IN  /\ g.mc_res_var = a.mc_resolution
           /\ g.chunk_size_var = a.chunk_size
           /\ g.texture_res_var = a.texture_resolution
           /\ g.mc_display_var = [actual |-> a.mc_resolution, exp |-> g.mc_exp_var]
           /\ g.chunk_display_var = [actual |-> a.chunk_size, exp |-> g.chunk_exp_var]
           /\ g.tex_display_var = [actual |-> a.texture_resolution, exp |-> g.tex_exp_var]
           /\ 2 ^ g.mc_exp_var = a.mc_resolution
           /\ 2 ^ g.chunk_exp_var = a.chunk_size
           /\ 2 ^ g.tex_exp_var = a.texture_resolution]_vars

\* C17: on a machine whose GPU memory is the same at the construction of the
\* window and at on_run, the values come from slider positions within the
\* limits the construction set, and the auto-adjust of on_run lowers none:
\* its prompt is never shown.  In particular the chunk exponent 13 (8192)
\* is out of reach in every tier.
C17_NoAutoAdjustNeeded ==
  /\ env.vrams = {vram} =>
       \A i \in 1..Len(prompts) : prompts[i].box # "vram_adjusted"
  /\ app = "open" => (tkv.chunk_exp_var # 13 /\ tkv.chunk_size_var # 8192)
  /\ \A a \in Launchers : a.chunk_size # 8192

\* a launch without a GPU from sliders at the upper ends of their scales:
\* only the high-load prompt was shown
C17_Witness ==
  /\ env.vrams = {0}
  /\ timers # <<>>
  /\ tkv.mc_exp_var = 8 /\ tkv.chunk_exp_var = 11 /\ tkv.tex_exp_var = 10
  /\ timers[1].mc_resolution = 256
  /\ timers[1].chunk_size = 2048
  /\ timers[1].texture_resolution = 1024
  /\ prompts = <<[box |-> "high_risk", answer |-> TRUE]>>

\* the step is thread i reading a line
ReadsLine(i) ==
  /\ Len(threads') = Len(threads)
  /\ threads'[i].read = threads[i].read + 1

\* the stage a line stands for: that of the first rule it matches, 0 if none
StageOf(line) ==
  IF Contains(line, "Processing images ...") THEN 1
  ELSE IF Contains(line, "Running image") /\ Contains(line, "...") THEN 2
  ELSE IF Contains(line, "Running model ...") THEN 3
  ELSE IF Contains(line, "Extracting mesh ...") THEN 4
  ELSE IF Contains(line, "Baking texture ...") THEN 5
  ELSE IF Contains(line, "Exporting mesh and texture finished") THEN 7
  ELSE IF Contains(line, "Exporting mesh and texture ...") THEN 6
  ELSE 0

StageText(n) ==
  CASE n = 1 -> "Step 1" [] n = 2 -> "Step 2" [] n = 3 -> "Step 3" [] n = 4 -> "Step 4"
    [] n = 5 -> "Step 5" [] n = 6 -> "Step 6" [] n = 7 -> "Step 7" [] OTHER -> "none"

\* C11: a line of the tool's output causes at most one status update; a
\* line that holds one of the fixed substrings causes the update to the
\* label of the first rule it matches (a line that holds "Exporting mesh
\* and texture finished" gives the step 7 label, not the step 6 one); a
\* line that holds none causes no update and leaves the status as it is.
C11_OneLabelPerLine ==
  [][\A i \in 1..Len(threads) :
       ReadsLine(i) =>
         LET stage == StageOf(Strip(threads'[i].raw_line))
         IN  /\ tkv'.status_var = tkv.status_var
             /\ IF stage = 0
                THEN afterq' = afterq
                ELSE /\ Len(afterq') = Len(afterq) + 1
                     /\ SubSeq(afterq', 1, Len(afterq)) = afterq
                     /\ afterq'[Len(afterq')].kind = "status"
                     /\ afterq'[Len(afterq')].text.text = StageText(stage)]_vars

\* the callbacks of one run are queued in the order its lines were read, its
\* on_done last; a run whose on_done is posted has no thread any more, and
\* a thread has read at least the lines its queued callbacks stand for
QueueInOrder ==
  /\ \A i, j \in 1..Len(afterq) :
       (i < j /\ afterq[i].run = afterq[j].run) =>
         /\ afterq[i].kind = "status"
         /\ IF afterq[j].kind = "status"
            THEN afterq[i].seq < afterq[j].seq
            ELSE afterq[i].seq <= afterq[j].seq
  /\ \A i \in 1..Len(afterq), k \in 1..Len(threads) :
       afterq[i].run = threads[k].run =>
         (afterq[i].kind = "status" /\ afterq[i].seq <= threads[k].read)

\* C16: the status updates the worker posts are applied on the main thread
\* in the order the lines were read, and the status on_done sets comes after
\* every stage label of its run: once the on_done of a run has executed,
\* nothing of that run is left that could overwrite the final status.
C16_StatusInOrder ==
  /\ []QueueInOrder
  /\ [][(app' = "open" /\ Len(afterq') < Len(afterq)) =>
          /\ afterq' = Tail(afterq)
          /\ tkv'.status_var.text =
               IF Head(afterq).kind = "status" THEN Head(afterq).text.text
               ELSE IF Head(afterq).rc = 0 THEN "done" ELSE "error"
          /\ Head(afterq).kind = "done" =>
               /\ \A i \in 1..Len(afterq') : afterq'[i].run # Head(afterq).run
               /\ \A k \in 1..Len(threads') : threads'[k].run # Head(afterq).run]_vars

\* two stage labels of a run and its on_done, waiting in that order
C16_Witness ==
  /\ Len(afterq) = 3
  /\ afterq[1].kind = "status" /\ afterq[1].seq = 1 /\ afterq[1].text.text = "Step 3"
  /\ afterq[2].kind = "status" /\ afterq[2].seq = 2 /\ afterq[2].text.text = "Step 7"
  /\ afterq[3].kind = "done" /\ afterq[3].seq = 2

\* C12: every on_run that disables the user interface is eventually followed
\* by enable_ui, whatever the exit code of the tool and also when the
\* launcher fails before or while spawning the process.
C12_EventuallyEnabled ==
  (app = "open" /\ wstate["mc_scale"] = "disabled") ~> (app = "open" => wstate["mc_scale"] = "normal")

====
